---- MODULE Spec2Model ----
(***************************************************************************)
(* Physical Therapy AR: the frame loop of main(), the exercise rules of    *)
(* verify_exercise() and the repetition counter.                           *)
(*                                                                         *)
(* Landmarks enter the model through the measurements verify_exercise      *)
(* derives from them (calculate_angle's results in whole degrees, the      *)
(* ear-shoulder distances in hundredths of the normalised frame height).   *)
(* A measurement is a tuple of its components: <<knee>> for the squat,     *)
(* <<left, right>> for arm_raise and shoulder_shrug.  Feedback strings are *)
(* kept up to their fixed text; the formatted averages are left out.       *)
(***************************************************************************)
EXTENDS Integers, Sequences, FiniteSets

\* ---------------------------------------------------------------- constants

\* deque(maxlen=10): capacity of angle_history
maxlen == 10

\* the literal 10 of "if len(angle_history) > 10"
HistoryLimit == 10

\* most measurements pushed between two exercise switches
MaxPushes == 11

exercises == <<"arm_raise", "squat", "leg_raise", "shoulder_shrug", "knee_extension">>

\* results.pose_landmarks is None
NoPose == [pose |-> FALSE]

\* the poses a frame can show, by the measurements verify_exercise takes
PoseResults ==
    { [pose |-> TRUE, arm |-> <<170, 170>>, knee |-> 70,  shrug |-> <<10, 10>>],
      [pose |-> TRUE, arm |-> <<140, 170>>, knee |-> 110, shrug |-> <<25, 10>>] }

Results == {NoPose} \cup PoseResults

\* poses for a session of arm raises: either arm, or neither, held too low
ArmResults ==
    { [pose |-> TRUE, arm |-> <<170, 170>>, knee |-> 70,  shrug |-> <<10, 10>>],
      [pose |-> TRUE, arm |-> <<140, 170>>, knee |-> 110, shrug |-> <<25, 10>>],
      [pose |-> TRUE, arm |-> <<170, 140>>, knee |-> 110, shrug |-> <<10, 25>>] }

\* ------------------------------------------------------------------- state

VARIABLES
    current_exercise,   \* index into exercises, 0-based as in the code
    rep_count,
    exercise_state,     \* the armed flag of the repetition counter
    angle_history,      \* the deque, oldest first
    pc,                 \* "read": top of the loop, "key": at waitKey, "done"
    results,            \* pose of the frame being processed
    is_correct,         \* verdict of the last processed frame
    feedback,
    key,                \* last key read by waitKey: "", "q", "n" or "other"
    raised,             \* an exception left verify_exercise
    pushed,             \* history variable: measurements pushed since the last switch
    correct_count,      \* history variable: correct verdicts since the last switch
    switched            \* history variable: an exercise switch has happened

vars == <<current_exercise, rep_count, exercise_state, angle_history, pc,
          results, is_correct, feedback, key, raised, pushed, correct_count,
          switched>>

\* ------------------------------------------------------- smoothing history

\* deque.append on a deque with maxlen: a full deque drops its leftmost item
dequeAppend(h, m) ==
    IF Len(h) >= maxlen THEN Append(Tail(h), m) ELSE Append(h, m)

\* push that starts the history afresh once it is full
push_restart(h, m) ==
    IF Len(h) >= HistoryLimit THEN <<m>> ELSE Append(h, m)

\* push without any eviction
push_no_evict(h, m) == Append(h, m)

\* angle_history.append(m); if len(angle_history) > 10: angle_history.popleft()
push(h, m) ==
    LET a == dequeAppend(h, m)
    IN  IF Len(a) > HistoryLimit THEN Tail(a) ELSE a

RECURSIVE SumFrom(_, _, _)
\* sum of component c of the entries i..Len(h)
SumFrom(h, c, i) ==
    IF i > Len(h) THEN 0 ELSE h[i][c] + SumFrom(h, c, i + 1)

\* sum([a[c] for a in h]) / len(h), kept as an exact fraction
average(h, c) == [num |-> SumFrom(h, c, 1), den |-> Len(h)]

\* avg > k and avg < k for a fraction with positive denominator
Above(avg, k) == avg.num > k * avg.den
Below(avg, k) == avg.num < k * avg.den

\* averaging fails on an empty history or on an entry of another shape
AverageFails(h, width) ==
    \/ Len(h) = 0
    \/ \E i \in 1..Len(h) : Len(h[i]) # width

\* --------------------------------------------------------- verify_exercise

Verdict(ok, text, h, exc) ==
    [is_correct |-> ok, feedback |-> text, angle_history |-> h, raised |-> exc]

\* the arm_raise branch accepting either arm
verify_arm_raise_either(res, hist) ==
    LET h == push(hist, res.arm)
    IN  IF AverageFails(h, 2)
        THEN Verdict(FALSE, "exception", h, TRUE)
        ELSE LET avg_left  == average(h, 1)
                 avg_right == average(h, 2)
             IN  IF Above(avg_left, 160) \/ Above(avg_right, 160)
                 THEN Verdict(TRUE, "Arms raised correctly", h, FALSE)
                 ELSE Verdict(FALSE, "Raise both arms higher", h, FALSE)

\* the arm_raise branch
verify_arm_raise(res, hist) ==
    LET h == push(hist, res.arm)
    IN  IF AverageFails(h, 2)
        THEN Verdict(FALSE, "exception", h, TRUE)
        ELSE LET avg_left  == average(h, 1)
                 avg_right == average(h, 2)
             IN  IF Above(avg_left, 160) /\ Above(avg_right, 160)
                 THEN Verdict(TRUE, "Arms raised correctly", h, FALSE)
                 ELSE Verdict(FALSE, "Raise both arms higher", h, FALSE)

\* the squat classification with the lower bound included
squat_verdict_inclusive(avg_angle, h) ==
    IF ~Below(avg_angle, 80) /\ Below(avg_angle, 100)
    THEN Verdict(TRUE, "Good squat form", h, FALSE)
    ELSE IF ~Below(avg_angle, 100)
         THEN Verdict(FALSE, "Squat lower", h, FALSE)
         ELSE Verdict(FALSE, "Don't squat too low", h, FALSE)

\* the classification of the squat branch: 80 < avg_angle < 100, >= 100, else
squat_verdict(avg_angle, h) ==
    IF Above(avg_angle, 80) /\ Below(avg_angle, 100)
    THEN Verdict(TRUE, "Good squat form", h, FALSE)
    ELSE IF ~Below(avg_angle, 100)
         THEN Verdict(FALSE, "Squat lower", h, FALSE)
         ELSE Verdict(FALSE, "Don't squat too low", h, FALSE)

\* the squat branch averaging before it pushes
verify_squat_average_first(res, hist) ==
    LET h == push(hist, <<res.knee>>)
    IN  IF AverageFails(hist, 1)
        THEN Verdict(FALSE, "exception", h, TRUE)
        ELSE squat_verdict(average(hist, 1), h)

\* the squat branch
verify_squat(res, hist) ==
    LET h == push(hist, <<res.knee>>)
    IN  IF AverageFails(h, 1)
        THEN Verdict(FALSE, "exception", h, TRUE)
        ELSE squat_verdict(average(h, 1), h)

\* the shoulder_shrug branch; distances and the 0.15 threshold in hundredths
verify_shoulder_shrug(res, hist) ==
    LET h == push(hist, res.shrug)
    IN  IF AverageFails(h, 2)
        THEN Verdict(FALSE, "exception", h, TRUE)
        ELSE LET avg_left  == average(h, 1)
                 avg_right == average(h, 2)
             IN  IF Below(avg_left, 15) /\ Below(avg_right, 15)
                 THEN Verdict(TRUE, "Good shoulder shrug", h, FALSE)
                 ELSE Verdict(FALSE, "Raise shoulders higher", h, FALSE)

\* a stub branch that pushes a measurement
verify_stub_push(exercise_type, hist) ==
    Verdict(FALSE, "Unable to detect " \o exercise_type \o " properly",
            push(hist, <<0>>), FALSE)

\* the leg_raise / knee_extension branch
verify_stub(exercise_type, hist) ==
    Verdict(FALSE, "Unable to detect " \o exercise_type \o " properly", hist, FALSE)

\* verify_exercise without the pose_landmarks guard: the attribute access raises
verify_exercise_no_guard(res, exercise_type, hist) ==
    IF ~res.pose
    THEN Verdict(FALSE, "exception", hist, TRUE)
    ELSE CASE exercise_type = "arm_raise"      -> verify_arm_raise(res, hist)
           [] exercise_type = "squat"          -> verify_squat(res, hist)
           [] exercise_type = "shoulder_shrug" -> verify_shoulder_shrug(res, hist)
           [] exercise_type \in {"leg_raise", "knee_extension"}
                                               -> verify_stub(exercise_type, hist)
           [] OTHER -> Verdict(FALSE, "Unknown exercise type", hist, FALSE)

verify_exercise(res, exercise_type, hist) ==
    IF ~res.pose
    THEN Verdict(FALSE, "No pose detected", hist, FALSE)
    ELSE CASE exercise_type = "arm_raise"      -> verify_arm_raise(res, hist)
           [] exercise_type = "squat"          -> verify_squat(res, hist)
           [] exercise_type = "shoulder_shrug" -> verify_shoulder_shrug(res, hist)
           [] exercise_type \in {"leg_raise", "knee_extension"}
                                               -> verify_stub(exercise_type, hist)
           [] OTHER -> Verdict(FALSE, "Unknown exercise type", hist, FALSE)

\* the measurement a frame pushes, <<>> when it pushes none
Measurement(res, exercise_type) ==
    IF ~res.pose THEN <<>>
    ELSE CASE exercise_type = "arm_raise"      -> <<res.arm>>
           [] exercise_type = "squat"          -> <<<<res.knee>>>>
           [] exercise_type = "shoulder_shrug" -> <<res.shrug>>
           [] OTHER -> <<>>

\* ------------------------------------------------------ repetition counter

\* a counter that counts every correct verdict and never arms
count_reps_every_frame(ok, state, count) ==
    IF ok
    THEN [exercise_state |-> FALSE, rep_count |-> count + 1]
    ELSE [exercise_state |-> state, rep_count |-> count]

\* a counter that disarms on an incorrect verdict
count_reps_disarm(ok, state, count) ==
    IF ok
    THEN IF ~state
         THEN [exercise_state |-> TRUE, rep_count |-> count]
         ELSE [exercise_state |-> FALSE, rep_count |-> count + 1]
    ELSE [exercise_state |-> FALSE, rep_count |-> count]

\* a counter that counts when it arms and again when it completes
count_reps_on_arm(ok, state, count) ==
    IF ok
    THEN IF ~state
         THEN [exercise_state |-> TRUE, rep_count |-> count + 1]
         ELSE [exercise_state |-> FALSE, rep_count |-> count + 1]
    ELSE [exercise_state |-> state, rep_count |-> count]

\* a counter that drops a repetition on an incorrect verdict while idle
count_reps_penalty(ok, state, count) ==
    IF ok
    THEN IF ~state
         THEN [exercise_state |-> TRUE, rep_count |-> count]
         ELSE [exercise_state |-> FALSE, rep_count |-> count + 1]
    ELSE [exercise_state |-> state,
          rep_count |-> IF ~state /\ count > 0 THEN count - 1 ELSE count]

\* "Count reps": the new (exercise_state, rep_count) after a verdict
count_reps(ok, state, count) ==
    IF ok
    THEN IF ~state
         THEN [exercise_state |-> TRUE, rep_count |-> count]
         ELSE [exercise_state |-> FALSE, rep_count |-> count + 1]
    ELSE [exercise_state |-> state, rep_count |-> count]

\* --------------------------------------------------------------- main loop

Init ==
    /\ current_exercise = 0
    /\ rep_count = 0
    /\ exercise_state = FALSE
    /\ angle_history = <<>>
    /\ pc = "read"
    /\ results = NoPose
    /\ is_correct = FALSE
    /\ feedback = ""
    /\ key = ""
    /\ raised = FALSE
    /\ pushed = <<>>
    /\ correct_count = 0
    /\ switched = FALSE

\* cap.read() fails: the loop breaks
ReadFail ==
    /\ pc = "read"
    /\ pc' = "done"
    /\ UNCHANGED <<current_exercise, rep_count, exercise_state, angle_history,
                   results, is_correct, feedback, key, raised, pushed,
                   correct_count, switched>>

\* one frame: analyze_pose, verify_exercise, count reps, up to waitKey
ProcessFrame(res) ==
    LET exercise_type == exercises[current_exercise + 1]
        v == verify_exercise(res, exercise_type, angle_history)
        c == count_reps(v.is_correct, exercise_state, rep_count)
        m == Measurement(res, exercise_type)
    IN  /\ pc = "read"
        /\ Len(pushed) + Len(m) <= MaxPushes
        /\ results' = res
        /\ angle_history' = v.angle_history
        /\ raised' = v.raised
        /\ pushed' = pushed \o m
        /\ IF v.raised
           THEN /\ pc' = "done"
                /\ UNCHANGED <<is_correct, feedback, exercise_state, rep_count,
                               correct_count>>
           ELSE /\ pc' = "key"
                /\ is_correct' = v.is_correct
                /\ feedback' = v.feedback
                /\ exercise_state' = c.exercise_state
                /\ rep_count' = c.rep_count
                /\ correct_count' = IF v.is_correct THEN correct_count + 1
                                                    ELSE correct_count
        /\ UNCHANGED <<current_exercise, key, switched>>

\* the 'q' key without the break
KeyQuitContinue ==
    /\ pc = "key"
    /\ key' = "q"
    /\ pc' = "read"
    /\ UNCHANGED <<current_exercise, rep_count, exercise_state, angle_history,
                   results, is_correct, feedback, raised, pushed,
                   correct_count, switched>>

\* key == ord('q')
KeyQuit ==
    /\ pc = "key"
    /\ key' = "q"
    /\ pc' = "done"
    /\ UNCHANGED <<current_exercise, rep_count, exercise_state, angle_history,
                   results, is_correct, feedback, raised, pushed,
                   correct_count, switched>>

\* the switch without rep_count = 0
KeySwitchKeepCount ==
    /\ pc = "key"
    /\ key' = "n"
    /\ pc' = "read"
    /\ current_exercise' = (current_exercise + 1) % Len(exercises)
    /\ angle_history' = <<>>
    /\ pushed' = <<>>
    /\ correct_count' = 0
    /\ switched' = TRUE
    /\ UNCHANGED <<rep_count, exercise_state, results, is_correct, feedback,
                   raised>>

\* the switch skipping one exercise
KeySwitchSkip ==
    /\ pc = "key"
    /\ key' = "n"
    /\ pc' = "read"
    /\ current_exercise' = (current_exercise + 2) % Len(exercises)
    /\ rep_count' = 0
    /\ angle_history' = <<>>
    /\ pushed' = <<>>
    /\ correct_count' = 0
    /\ switched' = TRUE
    /\ UNCHANGED <<exercise_state, results, is_correct, feedback, raised>>

\* the switch without angle_history.clear()
KeySwitchNoClear ==
    /\ pc = "key"
    /\ key' = "n"
    /\ pc' = "read"
    /\ current_exercise' = (current_exercise + 1) % Len(exercises)
    /\ rep_count' = 0
    /\ pushed' = <<>>
    /\ correct_count' = 0
    /\ switched' = TRUE
    /\ UNCHANGED <<angle_history, exercise_state, results, is_correct,
                   feedback, raised>>

\* key == ord('n')
KeySwitch ==
    /\ pc = "key"
    /\ key' = "n"
    /\ pc' = "read"
    /\ current_exercise' = (current_exercise + 1) % Len(exercises)
    /\ rep_count' = 0
    /\ angle_history' = <<>>
    /\ pushed' = <<>>
    /\ correct_count' = 0
    /\ switched' = TRUE
    /\ UNCHANGED <<exercise_state, results, is_correct, feedback, raised>>

\* any other key, or none within the wait
KeyOther ==
    /\ pc = "key"
    /\ key' = "other"
    /\ pc' = "read"
    /\ UNCHANGED <<current_exercise, rep_count, exercise_state, angle_history,
                   results, is_correct, feedback, raised, pushed,
                   correct_count, switched>>

Frame == \E res \in Results : ProcessFrame(res)

Next ==
    \/ ReadFail
    \/ Frame
    \/ KeyQuit
    \/ KeySwitch
    \/ KeyOther

Spec == Init /\ [][Next]_vars

\* a session of arm raises: a pose in every frame, no switch, no stop
ArmFrame == \E res \in ArmResults : ProcessFrame(res)

NextArm ==
    \/ ArmFrame
    \/ KeyOther

SpecArm == Init /\ [][NextArm]_vars

\* ------------------------------------------------------------- properties

\* a step that processes one frame up to waitKey
FrameStep == pc = "read" /\ pc' = "key"

\* a step that handles the 'n' key
SwitchStep == pc = "key" /\ key' = "n"

RECURSIVE LastN(_, _)
\* the last n entries of s, in order
LastN(s, n) == IF Len(s) <= n THEN s ELSE LastN(Tail(s), n)

\* C1: on every frame with a correct verdict an idle counter arms and keeps
\* rep_count, an armed counter goes idle and rep_count grows by exactly 1.
C1_CorrectVerdictToggles ==
    [][(FrameStep /\ is_correct') =>
          IF ~exercise_state
          THEN exercise_state' /\ rep_count' = rep_count
          ELSE ~exercise_state' /\ rep_count' = rep_count + 1]_vars

C1_Witness ==
    pc = "key" /\ is_correct /\ ~exercise_state /\ rep_count = 2

\* C2: immediately after every exercise switch the repetition state is
\* rep_count = 0 and idle (exercise_state false).
C2_SwitchResetsRepState ==
    (pc = "read" /\ key = "n") => (rep_count = 0 /\ exercise_state = FALSE)

\* C3: every exercise switch sets rep_count to 0 and leaves angle_history
\* empty, whatever they and the active exercise were before.
C3_SwitchResetsCountAndHistory ==
    (pc = "read" /\ key = "n") => (rep_count = 0 /\ angle_history = <<>>)

C3_Witness ==
    pc = "read" /\ key = "n" /\ current_exercise = 1 /\ exercise_state

\* C4: a frame with an incorrect verdict leaves the armed flag and rep_count
\* as they were; an armed counter stays armed over incorrect frames.
C4_IncorrectVerdictKeepsState ==
    [][(FrameStep /\ ~is_correct') =>
          (exercise_state' = exercise_state /\ rep_count' = rep_count)]_vars

C4_Witness ==
    /\ pc = "key" /\ ~is_correct /\ exercise_state
    /\ current_exercise = 0 /\ ~switched /\ rep_count = 1

\* C5: while no switch has happened, after k correct verdicts rep_count is
\* floor(k / 2) and the counter is armed iff k is odd, however incorrect
\* verdicts are interleaved.
C5_CountIsHalfOfCorrect ==
    ~switched =>
        /\ rep_count = correct_count \div 2
        /\ exercise_state = (correct_count % 2 = 1)

C5_Witness ==
    /\ ~switched /\ correct_count = 5 /\ rep_count = 2 /\ exercise_state
    /\ Len(pushed) > correct_count

\* C6: angle_history never holds more than 10 entries and is exactly the
\* last min(n, 10) of the n measurements pushed since the last switch, in
\* insertion order.
C6_HistoryIsLastTen ==
    /\ Len(angle_history) <= maxlen
    /\ angle_history = LastN(pushed, maxlen)

C6_Witness ==
    /\ Len(pushed) = maxlen + 1 /\ Len(angle_history) = maxlen
    /\ pushed[1] # pushed[2]

\* C7: a frame without a pose gives an incorrect verdict with the feedback
\* "No pose detected", leaves angle_history as it was and raises nothing,
\* whatever the active exercise.
C7_NoPoseFrame ==
    [][(pc = "read" /\ (pc' = "key" \/ raised') /\ results' = NoPose) =>
          /\ pc' = "key" /\ ~raised'
          /\ ~is_correct' /\ feedback' = "No pose detected"
          /\ angle_history' = angle_history]_vars

C7_Witness ==
    /\ pc = "key" /\ results = NoPose /\ feedback = "No pose detected"
    /\ Len(angle_history) > 0 /\ current_exercise = 3

\* C8: a frame evaluated while leg_raise or knee_extension is active never
\* changes angle_history and always has an incorrect verdict.
C8_StubExercises ==
    [][(FrameStep /\ exercises[current_exercise + 1] \in {"leg_raise", "knee_extension"}) =>
          (angle_history' = angle_history /\ ~is_correct')]_vars

C8_Witness ==
    /\ pc = "key" /\ results # NoPose /\ current_exercise = 4
    /\ feedback = "Unable to detect knee_extension properly"

\* C9: rep_count changes by at most 1 per frame and never downwards; only
\* the exercise switch lowers it.
C9_CountMonotoneBetweenSwitches ==
    [][/\ FrameStep => rep_count' \in {rep_count, rep_count + 1}
       /\ ~SwitchStep => rep_count' >= rep_count]_vars

C9_Witness ==
    pc = "key" /\ rep_count = 3 /\ is_correct

\* C10: after a squat frame with a pose the verdict is correct iff the
\* average knee angle of the retained history is strictly between 80 and
\* 100; an average >= 100 gives "Squat lower", an average <= 80 gives
\* "Don't squat too low".
C10_SquatVerdict ==
    (pc = "key" /\ current_exercise = 1 /\ results # NoPose) =>
        LET n == Len(angle_history)
            total == SumFrom(angle_history, 1, 1)
        IN  /\ n > 0
            /\ angle_history[n] = <<results.knee>>
            /\ is_correct <=> (total > 80 * n /\ total < 100 * n)
            /\ total >= 100 * n => (~is_correct /\ feedback = "Squat lower")
            /\ total <= 80 * n => (~is_correct /\ feedback = "Don't squat too low")

C10_Witness ==
    /\ pc = "key" /\ current_exercise = 1 /\ results # NoPose
    /\ Len(angle_history) = 4
    /\ SumFrom(angle_history, 1, 1) = 80 * Len(angle_history)
    /\ ~is_correct

\* C11: after an arm_raise frame with a pose the verdict is correct iff both
\* per-arm averages over the retained history (the last 10 measurements at
\* most) are strictly above 160, whatever the frame's own angles are.
C11_ArmRaiseVerdict ==
    (pc = "key" /\ current_exercise = 0 /\ results # NoPose) =>
        LET n == Len(angle_history)
            left == SumFrom(angle_history, 1, 1)
            right == SumFrom(angle_history, 2, 1)
        IN  /\ n > 0
            /\ angle_history = LastN(pushed, maxlen)
            /\ angle_history[n] = results.arm
            /\ is_correct <=> (left > 160 * n /\ right > 160 * n)

C11_Witness ==
    /\ pc = "key" /\ current_exercise = 0 /\ results # NoPose
    /\ Len(pushed) = maxlen + 1
    /\ results.arm = <<170, 170>>
    /\ SumFrom(angle_history, 1, 1) > 160 * Len(angle_history)
    /\ SumFrom(angle_history, 2, 1) <= 160 * Len(angle_history)
    /\ ~is_correct

\* the exercise after kind in the order of the exercises list, cyclically
Successor(kind) ==
    CASE kind = "arm_raise"      -> "squat"
      [] kind = "squat"          -> "leg_raise"
      [] kind = "leg_raise"      -> "shoulder_shrug"
      [] kind = "shoulder_shrug" -> "knee_extension"
      [] kind = "knee_extension" -> "arm_raise"

\* C12: current_exercise always indexes one of the five exercises; a switch
\* moves it to the next one in the order arm_raise, squat, leg_raise,
\* shoulder_shrug, knee_extension, arm_raise; no other step changes it.
C12_ExerciseCycle ==
    [][/\ current_exercise' \in 0..4
       /\ SwitchStep =>
            exercises[current_exercise' + 1] = Successor(exercises[current_exercise + 1])
       /\ ~SwitchStep => current_exercise' = current_exercise]_vars

C12_Witness ==
    pc = "read" /\ key = "n" /\ current_exercise = 0 /\ switched

\* the measurements an exercise pushes
MeasurementsOf(exercise_type) ==
    { Measurement(r, exercise_type)[1] :
        r \in { q \in PoseResults : Measurement(q, exercise_type) # <<>> } }

\* C13: every entry of angle_history is a measurement of the active exercise
\* pushed since the last switch; no evaluation ever meets an entry of
\* another exercise.
C13_HistoryOfActiveExercise ==
    /\ ~raised
    /\ \A i \in 1..Len(angle_history) :
          /\ angle_history[i] \in MeasurementsOf(exercises[current_exercise + 1])
          /\ \E j \in 1..Len(pushed) : pushed[j] = angle_history[i]

C13_Witness ==
    /\ current_exercise = 3 /\ Len(angle_history) = maxlen /\ pc = "key"
    /\ angle_history[1] # angle_history[2]

\* C14: whenever an average has been computed (a frame with a pose while
\* arm_raise, squat or shoulder_shrug is active) the history it was taken
\* over is not empty, and no evaluation raises.
C14_AverageOverNonEmpty ==
    /\ ~raised
    /\ (/\ pc = "key" /\ results # NoPose
        /\ exercises[current_exercise + 1] \in {"arm_raise", "squat", "shoulder_shrug"})
          => Len(angle_history) >= 1

C14_Witness ==
    /\ pc = "key" /\ key = "n" /\ results # NoPose
    /\ current_exercise = 1 /\ Len(angle_history) = 1

\* the session state: exercise index, repetition state and history
session == <<current_exercise, rep_count, exercise_state, angle_history>>

\* C15: a failed read ends the loop without evaluating or counting; the 'q'
\* key is seen only at waitKey, after the frame was evaluated and counted,
\* and ends the loop too; once the loop has ended nothing changes any more.
C15_SessionEnds ==
    [][/\ (pc = "read" /\ pc' = "done" /\ ~raised') =>
             UNCHANGED <<session, results, is_correct, feedback, key>>
       /\ key' = "q" => pc' = "done"
       /\ (key' = "q" /\ pc # "done") => (pc = "key" /\ UNCHANGED session)
       /\ pc = "done" => UNCHANGED vars]_vars

C15_Witness ==
    /\ pc = "done" /\ key = "other" /\ ~raised
    /\ rep_count = 1 /\ exercise_state /\ Len(angle_history) = 3

\* C16: rep_count never exceeds half the number of correct verdicts since
\* the last switch (or since the start of the session).
C16_CountAtMostHalfOfCorrect ==
    rep_count <= correct_count \div 2

\* C17: a frame leaves angle_history as it was or appends one measurement,
\* dropping at most the oldest entry; the history never gets shorter in a
\* frame, and only the exercise switch empties it.
C17_HistoryChangesByPush ==
    [][/\ (pc = "read" /\ (pc' = "key" \/ raised')) =>
            /\ Len(angle_history') >= Len(angle_history)
            /\ \/ angle_history' = angle_history
               \/ \E m \in {angle_history'[i] : i \in {Len(angle_history')}} :
                     \/ angle_history' = Append(angle_history, m)
                     \/ /\ angle_history # <<>>
                        /\ angle_history' = Append(Tail(angle_history), m)
       /\ (angle_history # <<>> /\ angle_history' = <<>>) => SwitchStep
       /\ ~(pc = "read" /\ (pc' = "key" \/ raised')) =>
            angle_history' \in {angle_history, <<>>}]_vars

C17_Witness ==
    /\ pc = "key" /\ results # NoPose /\ current_exercise = 3
    /\ Len(pushed) = maxlen + 1 /\ Len(angle_history) = maxlen
    /\ angle_history[1] # pushed[1]

\* C18: while leg_raise or knee_extension is active rep_count is 0 and
\* angle_history is empty, whatever the armed flag.
C18_StubExerciseState ==
    exercises[current_exercise + 1] \in {"leg_raise", "knee_extension"} =>
        (rep_count = 0 /\ angle_history = <<>>)

C18_Witness ==
    /\ current_exercise = 4 /\ exercise_state /\ pc = "key"
    /\ results # NoPose /\ key = "other"

====
